---- MODULE Spec2Model ----
(***************************************************************************)
(* Portfolio rebalancer: the App component's state (asset list, currency,  *)
(* totalValue, pricesLoading, the search box), its handlers (addAsset,     *)
(* removeAsset, updateAsset, setCurrency, fetchPrices, the search input),  *)
(* its effects (saving to localStorage, the debounced search, the price    *)
(* fetch, the total value), the requests and timers in flight, and the     *)
(* derived valuation functions.                                            *)
(*                                                                         *)
(* Spec is the portfolio, SpecSearch the search box, SpecStartup the mount *)
(* from arbitrary stored contents, SpecCalc and SpecMerge the pure         *)
(* functions on drawn inputs.  SpecEdit and SpecPlan are the asset cards   *)
(* alone, SpecRace and SpecLive the price requests (with a price that has  *)
(* moved between two requests; under fair scheduling), SpecLookup the      *)
(* search box over a source whose answer depends on the query.             *)
(*                                                                         *)
(* Numbers are exact: a JavaScript number is modelled by an integer, and   *)
(* the quotients the code forms (percentages, rebalance differences,       *)
(* units) are kept as numerator/denominator over a stated denominator, so  *)
(* that comparisons are made by cross-multiplication.  Floating-point      *)
(* rounding is outside the model.                                          *)
(***************************************************************************)
EXTENDS Integers, Sequences, FiniteSets, TLC

VARIABLES
    assets,         \* useState assets: the list of asset records, in insertion order
    currency,       \* useState currency: "eur" or "usd"
    totalValue,     \* useState totalValue: written only by the total-value effect
    pricesLoading,  \* useState pricesLoading
    inflight,       \* price requests scheduled or issued and not yet completed, in that order
    effectsDue,     \* TRUE when a commit changed assets or currency and the effects have not run yet
    depLen,         \* assets.length as the [assets.length] effect last saw it (-1 before mount)
    issued,         \* price requests issued so far
    edits,          \* updateAsset calls made so far
    last,           \* the last operation that ran
    shown,          \* the last derived value handed to the presentation layer
    storedAssets,   \* localStorage item 'portfolio-assets-v2'
    storedCurrency, \* localStorage item 'portfolio-currency'
    startup,        \* the phase of the mount and the value the assets initializer returned
    searchQuery,    \* useState searchQuery, a sequence of characters
    searchResults,  \* useState searchResults: the coins offered
    isSearching,    \* useState isSearching
    showSearch,     \* useState showSearch
    timers,         \* the pending timers of the debounced search
    cleanupTimer,   \* the timer the cleanup of the last search effect clears (0: none)
    searchInflight, \* search requests issued and not yet completed, in issue order
    queryDue,       \* TRUE when a commit changed searchQuery and the search effect has not run yet
    typed,          \* changes of the search text made so far
    quiet           \* milliseconds since searchQuery last changed, up to SearchDelay

storeVars == <<storedAssets, storedCurrency, startup>>

searchVars == <<searchQuery, searchResults, isSearching, showSearch, timers, cleanupTimer,
                searchInflight, queryDue, typed, quiet>>

vars == <<assets, currency, totalValue, pricesLoading, inflight, effectsDue, depLen,
          issued, edits, last, shown, storeVars, searchVars>>

----------------------------------------------------------------------------
(* Bounds of the model. *)

\* Price requests issued in one run.
MaxRequests == 3

\* User edits (updateAsset calls) in one run.
MaxEdits == 1

\* Changes of the search text in one run.
MaxKeystrokes == 3

\* The delay of the debounced search, in milliseconds.
SearchDelay == 500

----------------------------------------------------------------------------
(* Input domains. *)

\* Coin ids the price source knows.
Ids == {"btc", "eth"}

Currencies == {"eur", "usd"}

\* category values written by the category toggles (null is "none").
Categories == {"null", "safe", "risky"}

NumericFields == {"holdings", "buyPrice", "targetPercent"}

\* Texts an input element can hand to updateAsset, as character sequences.
InputTexts ==
    { <<>>, <<"a", "b">>, <<"-">>, <<"-", "1">>, <<" ", "+", "1", "5", "0", "x">> }

\* What the price source can answer for one id: no data, or prices with an
\* optional 24h change (0 stands for an absent or zero change).
NoData == [has |-> FALSE, eur |-> 0, usd |-> 0, change |-> 0]

PriceAnswers ==
    { NoData,
      [has |-> TRUE, eur |-> 100, usd |-> 110, change |-> 3] }

\* Search texts: the empty text, one character, and texts of two and three.
Queries == { <<>>, <<"b">>, <<"b", "t">>, <<"b", "t", "c">> }

\* What a search can answer: data.coins?.slice(0, 8) || [], as coin ids.
SearchAnswers == { <<>>, <<"btc", "eth">> }

\* The amounts of time, in milliseconds, that pass in one step.
TickSteps == {250}

----------------------------------------------------------------------------
(* Number helpers. *)

Abs(x) == IF x < 0 THEN -x ELSE x

----------------------------------------------------------------------------
(* parseFloat, on a character sequence: leading blanks are skipped, then an *)
(* optional sign and the longest run of decimal digits are read; whatever   *)
(* follows is ignored; no digit at all gives NaN.  Texts with a fraction or *)
(* an exponent are outside InputTexts.                                      *)

Digits == {"0", "1", "2", "3", "4", "5", "6", "7", "8", "9"}

DigitValue(c) ==
    CASE c = "0" -> 0 [] c = "1" -> 1 [] c = "2" -> 2 [] c = "3" -> 3 [] c = "4" -> 4
      [] c = "5" -> 5 [] c = "6" -> 6 [] c = "7" -> 7 [] c = "8" -> 8 [] c = "9" -> 9

RECURSIVE TrimLeft(_)
TrimLeft(t) == IF t # <<>> /\ Head(t) = " " THEN TrimLeft(Tail(t)) ELSE t

RECURSIVE DigitPrefix(_)
DigitPrefix(t) ==
    IF t # <<>> /\ Head(t) \in Digits THEN <<Head(t)>> \o DigitPrefix(Tail(t)) ELSE <<>>

RECURSIVE DigitsNumber(_, _)
DigitsNumber(ds, acc) ==
    IF ds = <<>> THEN acc ELSE DigitsNumber(Tail(ds), 10 * acc + DigitValue(Head(ds)))

NaN == [nan |-> TRUE, val |-> 0]

Num(n) == [nan |-> FALSE, val |-> n]

ParseFloat(text) ==
    LET t      == TrimLeft(text)
        signed == t # <<>> /\ Head(t) \in {"-", "+"}
        body   == IF signed THEN Tail(t) ELSE t
        ds     == DigitPrefix(body)
        n      == DigitsNumber(ds, 0)
    IN  IF ds = <<>> THEN NaN
        ELSE IF signed /\ Head(t) = "-" THEN Num(-n) ELSE Num(n)

\* x || 0 for a number x: NaN and 0 are falsy.
OrZero(x) == IF x.nan \/ x.val = 0 THEN 0 ELSE x.val

----------------------------------------------------------------------------
(* Asset records. *)

NewAsset(coin) ==
    [ id            |-> coin,
      holdings      |-> 0,
      targetPercent |-> 0,
      buyPrice      |-> 0,
      category      |-> "null",
      priceEur      |-> 0,
      priceUsd      |-> 0,
      change24h     |-> 0 ]

AssetIds(list) == { list[i].id : i \in 1..Len(list) }

HasAsset(list, id) == \E i \in 1..Len(list) : list[i].id = id

\* list.filter(a => a.id !== id)
RECURSIVE FilterOut(_, _)
FilterOut(list, id) ==
    IF list = <<>> THEN <<>>
    ELSE IF Head(list).id = id THEN FilterOut(Tail(list), id)
    ELSE <<Head(list)>> \o FilterOut(Tail(list), id)

----------------------------------------------------------------------------
(* Valuation: the derived values a render computes from the state. *)

\* currency === 'eur' ? asset.priceEur : asset.priceUsd
PriceOf(asset, cur) == IF cur = "eur" THEN asset.priceEur ELSE asset.priceUsd

\* Mutant: a value that leaves out the assets marked risky.
ValueInSkippingRisky(asset, cur) ==
    IF asset.category = "risky" THEN 0 ELSE asset.holdings * PriceOf(asset, cur)

\* asset.holdings * (price || 0)
ValueIn(asset, cur) == asset.holdings * PriceOf(asset, cur)

getAssetValue(asset) == ValueIn(asset, currency)

\* assets.reduce((sum, asset) => sum + holdings * (price || 0), 0)
RECURSIVE SumValues(_, _)
SumValues(list, cur) ==
    IF list = <<>> THEN 0 ELSE ValueIn(Head(list), cur) + SumValues(Tail(list), cur)

\* assets.reduce((sum, a) => sum + (a.targetPercent || 0), 0)
RECURSIVE SumTargets(_)
SumTargets(list) ==
    IF list = <<>> THEN 0 ELSE Head(list).targetPercent + SumTargets(Tail(list))

totalTargetPercent == SumTargets(assets)

\* A quotient num/den, den # 0, kept exact.
Rat(n, d) == [num |-> n, den |-> d]

\* getCurrentPercent: 0 when totalValue is 0, else value / totalValue * 100.
getCurrentPercent(asset) ==
    IF totalValue = 0 THEN Rat(0, 1)
    ELSE Rat(getAssetValue(asset) * 100, totalValue)

\* difference = targetPercent / 100 * totalValue - currentValue, in hundredths.
DifferenceC(asset) == asset.targetPercent * totalValue - 100 * getAssetValue(asset)

Null == [action |-> "null"]

\* Mutant: a deadband that also swallows a difference of exactly 1.
getRebalanceActionWideDeadband(asset) ==
    LET differenceC == DifferenceC(asset)
        price       == PriceOf(asset, currency)
    IN  IF Abs(differenceC) <= 100 THEN Null
        ELSE [ action  |-> IF differenceC > 0 THEN "BUY" ELSE "SELL",
               amountC |-> Abs(differenceC),
               units   |-> IF price > 0 THEN Rat(Abs(differenceC), 100 * price)
                           ELSE Rat(0, 1) ]

\* Mutant: the units of a trade sized from the signed difference without
\* the price guard.
getRebalanceActionUnguardedUnits(asset) ==
    LET differenceC == DifferenceC(asset)
        price       == PriceOf(asset, currency)
    IN  IF Abs(differenceC) < 100 THEN Null
        ELSE [ action  |-> IF differenceC > 0 THEN "BUY" ELSE "SELL",
               amountC |-> Abs(differenceC),
               units   |-> IF price > 0 THEN Rat(Abs(differenceC), 100 * price)
                           ELSE Rat(Abs(differenceC), 100) ]

\* getRebalanceAction: null inside the deadband, else the action with its
\* amount (in hundredths) and its units (a quotient).
getRebalanceAction(asset) ==
    LET differenceC == DifferenceC(asset)
        price       == PriceOf(asset, currency)
    IN  IF Abs(differenceC) < 100 THEN Null
        ELSE [ action  |-> IF differenceC > 0 THEN "BUY" ELSE "SELL",
               amountC |-> Abs(differenceC),
               units   |-> IF price > 0 THEN Rat(Abs(differenceC), 100 * price)
                           ELSE Rat(0, 1) ]

\* Math.max(0, x)
Max0(x) == IF x > 0 THEN x ELSE 0

\* Math.round(n / d) for n >= 0 and d > 0: the nearest integer, halves upwards.
RoundQuot(n, d) == (2 * n + d) \div (2 * d)

\* totalDeviation of calculateHealthScore, times |totalValue|:
\* the sum of |value / totalValue * 100 - targetPercent|.
RECURSIVE DeviationNum(_)
DeviationNum(list) ==
    IF list = <<>> THEN 0
    ELSE Abs(100 * getAssetValue(Head(list)) - Head(list).targetPercent * totalValue)
             + DeviationNum(Tail(list))

\* Mutant: a health score that takes the whole deviation off, not its half.
calculateHealthScoreUnhalved ==
    IF Len(assets) = 0 \/ totalValue = 0 THEN 100
    ELSE LET d == Abs(totalValue)
         IN  RoundQuot(Max0(100 * d - DeviationNum(assets)), d)

\* Mutant: a health score without the Math.max(0, ...) clamp.
calculateHealthScoreUnclamped ==
    IF Len(assets) = 0 \/ totalValue = 0 THEN 100
    ELSE LET d == 2 * Abs(totalValue)
         IN  RoundQuot(100 * d - DeviationNum(assets), d)

\* calculateHealthScore: 100 for no assets or a zero total, else
\* Math.round(Math.max(0, 100 - totalDeviation / 2)).
calculateHealthScore ==
    IF Len(assets) = 0 \/ totalValue = 0 THEN 100
    ELSE LET d == 2 * Abs(totalValue)
         IN  RoundQuot(Max0(100 * d - DeviationNum(assets)), d)

\* Mutant: a sort that puts an asset in front of those of equal value.
RECURSIVE InsertByValueBeforeEqual(_, _, _)
InsertByValueBeforeEqual(sorted, a, cur) ==
    IF sorted = <<>> THEN <<a>>
    ELSE IF ValueIn(Head(sorted), cur) > ValueIn(a, cur)
         THEN <<Head(sorted)>> \o InsertByValueBeforeEqual(Tail(sorted), a, cur)
         ELSE <<a>> \o sorted

\* Array.prototype.sort with the comparator value(b) - value(a): the sort is
\* stable, so an asset goes behind every asset whose value is not smaller.
RECURSIVE InsertByValue(_, _, _)
InsertByValue(sorted, a, cur) ==
    IF sorted = <<>> THEN <<a>>
    ELSE IF ValueIn(Head(sorted), cur) >= ValueIn(a, cur)
         THEN <<Head(sorted)>> \o InsertByValue(Tail(sorted), a, cur)
         ELSE <<a>> \o sorted

RECURSIVE SortByValue(_, _)
SortByValue(list, cur) ==
    IF list = <<>> THEN <<>>
    ELSE InsertByValue(SortByValue(SubSeq(list, 1, Len(list) - 1), cur),
                       list[Len(list)], cur)

\* sortedAssets = [...assets].sort(...)
sortedAssets == SortByValue(assets, currency)

\* assets.reduce((sum, asset) => sum + holdings * (buyPrice || 0), 0)
RECURSIVE SumCostBasis(_)
SumCostBasis(list) ==
    IF list = <<>> THEN 0
    ELSE Head(list).holdings * Head(list).buyPrice + SumCostBasis(Tail(list))

\* assets.reduce((sum, asset) => sum + (currentValue - costBasis), 0)
RECURSIVE SumPnL(_, _)
SumPnL(list, cur) ==
    IF list = <<>> THEN 0
    ELSE (ValueIn(Head(list), cur) - Head(list).holdings * Head(list).buyPrice)
             + SumPnL(Tail(list), cur)

totalPnL == SumPnL(assets, currency)

totalCostBasis == SumCostBasis(assets)

\* Mutant: a percentage computed for every non-zero cost basis.
pnlPercentUnguarded ==
    IF totalCostBasis # 0 THEN Rat(totalPnL * 100, totalCostBasis) ELSE Rat(0, 1)

\* pnlPercent = totalCostBasis > 0 ? (totalPnL / totalCostBasis) * 100 : 0
pnlPercent ==
    IF totalCostBasis > 0 THEN Rat(totalPnL * 100, totalCostBasis) ELSE Rat(0, 1)

----------------------------------------------------------------------------
(* Price requests and the merge of their answers. *)

BulkRequest(list) == [kind |-> "bulk", ids |-> AssetIds(list)]

SingleRequest(coin) == [kind |-> "single", ids |-> {coin}]

\* The answers the price source can give to a request: data only for ids
\* that were asked for, each of them possibly without data.
Answers(req) ==
    { d \in [Ids -> PriceAnswers] : \A id \in Ids \ req.ids : d[id] = NoData }

\* a || b || 0 on numbers
Or2(a, b) == IF a # 0 THEN a ELSE b

\* Mutant: the bulk merge without the fallback to the stored price.
MergeBulkAssetOverwrite(asset, data) ==
    [asset EXCEPT !.priceEur  = data[asset.id].eur,
                  !.priceUsd  = data[asset.id].usd,
                  !.change24h = data[asset.id].change]

\* Mutant: the bulk merge without the spread of the asset's other fields.
MergeBulkAssetNoSpread(asset, data) ==
    [NewAsset(asset.id) EXCEPT !.priceEur  = Or2(data[asset.id].eur, asset.priceEur),
                               !.priceUsd  = Or2(data[asset.id].usd, asset.priceUsd),
                               !.change24h = data[asset.id].change]

\* Mutant: a bulk merge that adds the answered change to the stored one.
MergeBulkAssetAdding(asset, data) ==
    [asset EXCEPT !.priceEur  = Or2(data[asset.id].eur, asset.priceEur),
                  !.priceUsd  = Or2(data[asset.id].usd, asset.priceUsd),
                  !.change24h = asset.change24h + data[asset.id].change]

\* fetchPrices: one asset of prev.map(...)
MergeBulkAsset(asset, data) ==
    [asset EXCEPT !.priceEur  = Or2(data[asset.id].eur, asset.priceEur),
                  !.priceUsd  = Or2(data[asset.id].usd, asset.priceUsd),
                  !.change24h = data[asset.id].change]

\* fetchPrices: setAssets(prev => prev.map(...))
MergeBulk(prev, data) ==
    [i \in 1..Len(prev) |-> MergeBulkAsset(prev[i], data)]

\* Mutant: a follow-up merge that drops the answered prices.
MergeSingleAssetKeeping(asset, coin, data) ==
    IF asset.id = coin
    THEN [asset EXCEPT !.change24h = data[coin].change]
    ELSE asset

\* addAsset follow-up: one asset of prev.map(...)
MergeSingleAsset(asset, coin, data) ==
    IF asset.id = coin
    THEN [asset EXCEPT !.priceEur  = data[coin].eur,
                       !.priceUsd  = data[coin].usd,
                       !.change24h = data[coin].change]
    ELSE asset

\* addAsset follow-up: setAssets(prev => prev.map(...))
MergeSingle(prev, coin, data) ==
    [i \in 1..Len(prev) |-> MergeSingleAsset(prev[i], coin, data)]

\* The i-th request removed from the requests in flight.
RemoveAt(q, i) == SubSeq(q, 1, i - 1) \o SubSeq(q, i + 1, Len(q))

----------------------------------------------------------------------------
(* Writes of the handlers. *)

\* updateAsset: the value stored for a field
StoredValue(field, value) ==
    IF field = "category" THEN value ELSE OrZero(ParseFloat(value))

\* Mutant: updateAsset that rejects a text parseFloat cannot read.
UpdateListRejecting(list, id, field, value) ==
    [i \in 1..Len(list) |->
        IF list[i].id = id /\ (field = "category" \/ ~ParseFloat(value).nan)
        THEN [list[i] EXCEPT ![field] = StoredValue(field, value)]
        ELSE list[i]]

\* Mutant: updateAsset without the spread of the asset's other fields.
UpdateListNoSpread(list, id, field, value) ==
    [i \in 1..Len(list) |->
        IF list[i].id = id
        THEN [NewAsset(id) EXCEPT ![field] = StoredValue(field, value)]
        ELSE list[i]]

\* updateAsset: assets.map(a => a.id === id ? {...a, [field]: v} : a)
UpdateList(list, id, field, value) ==
    [i \in 1..Len(list) |->
        IF list[i].id = id
        THEN [list[i] EXCEPT ![field] = StoredValue(field, value)]
        ELSE list[i]]

\* The record of the last operation: its name, the ids it was about and,
\* for a completed request, the ids its answer had no data for.
Op(name, ids, nodata) == [op |-> name, ids |-> ids, nodata |-> nodata]

NoDataIds(data) == { id \in Ids : ~data[id].has }

NothingShown == [view |-> "none"]

----------------------------------------------------------------------------
(* localStorage and JSON.  A stored item is absent, unreadable (getItem     *)
(* throws) or a text.  The text of the assets item is kept as the JSON      *)
(* document it spells, its numbers as their decimal digits; the empty text  *)
(* and a text that is no JSON document are documents of their own kind.     *)
(* setItem is taken to succeed.                                             *)

AbsentItem == [kind |-> "absent"]

UnreadableItem == [kind |-> "unreadable"]

TextItem(t) == [kind |-> "text", text |-> t]

EmptyText == [type |-> "empty"]

GarbageText == [type |-> "garbage"]

JsonNull == [type |-> "null"]

DigitChar(d) == <<"0", "1", "2", "3", "4", "5", "6", "7", "8", "9">>[d + 1]

RECURSIVE NatDigits(_)
NatDigits(n) ==
    IF n < 10 THEN <<DigitChar(n)>> ELSE NatDigits(n \div 10) \o <<DigitChar(n % 10)>>

\* Mutant: a number written without its sign.
JsonNumberUnsigned(n) == NatDigits(Abs(n))

\* JSON.stringify of a number: its decimal digits, behind a - when negative.
JsonNumber(n) == IF n < 0 THEN <<"-">> \o NatDigits(-n) ELSE NatDigits(n)

\* JSON.parse of a number.
JsonNumberValue(lex) ==
    IF Head(lex) = "-" THEN -DigitsNumber(Tail(lex), 0) ELSE DigitsNumber(lex, 0)

\* JSON.stringify of one asset: an object with the text of each member; the
\* category is null (no text) or a string.
JsonStringifyAsset(a) ==
    [ id            |-> a.id,
      holdings      |-> JsonNumber(a.holdings),
      targetPercent |-> JsonNumber(a.targetPercent),
      buyPrice      |-> JsonNumber(a.buyPrice),
      category      |-> IF a.category = "null" THEN <<>> ELSE <<a.category>>,
      priceEur      |-> JsonNumber(a.priceEur),
      priceUsd      |-> JsonNumber(a.priceUsd),
      change24h     |-> JsonNumber(a.change24h) ]

\* JSON.stringify(assets)
JsonStringify(list) ==
    [type |-> "array", items |-> [i \in 1..Len(list) |-> JsonStringifyAsset(list[i])]]

\* JSON.parse of an element of an array: an object gives the asset record it
\* spells, anything else the value it spells.
JsonParseItem(doc) ==
    IF "id" \in DOMAIN doc
    THEN [ id            |-> doc.id,
           holdings      |-> JsonNumberValue(doc.holdings),
           targetPercent |-> JsonNumberValue(doc.targetPercent),
           buyPrice      |-> JsonNumberValue(doc.buyPrice),
           category      |-> IF doc.category = <<>> THEN "null" ELSE doc.category[1],
           priceEur      |-> JsonNumberValue(doc.priceEur),
           priceUsd      |-> JsonNumberValue(doc.priceUsd),
           change24h     |-> JsonNumberValue(doc.change24h) ]
    ELSE IF doc.type = "number"
         THEN [type |-> "number", val |-> JsonNumberValue(doc.lex)]
         ELSE [type |-> doc.type]

\* A list as a JavaScript value.
ListValue(items) == [type |-> "array", items |-> items]

\* JSON.parse(saved): whatever value the document spells.
JsonParse(doc) ==
    IF doc.type = "array"
    THEN ListValue([i \in 1..Len(doc.items) |-> JsonParseItem(doc.items[i])])
    ELSE JsonParseItem(doc)

\* The initializer of assets: saved ? JSON.parse(saved) : [], and [] when
\* getItem or JSON.parse throws.
InitialAssets(item) ==
    IF item.kind # "text" THEN ListValue(<<>>)
    ELSE IF item.text = EmptyText \/ item.text = GarbageText THEN ListValue(<<>>)
    ELSE JsonParse(item.text)

\* The initializer of currency: getItem(...) || 'eur', and 'eur' when
\* getItem throws.
InitialCurrency(item) ==
    IF item.kind # "text" \/ item.text = "" THEN "eur" ELSE item.text

\* A value the render can work on: a list whose elements are asset objects.
IsAssetList(v) ==
    /\ v.type = "array"
    /\ \A i \in 1..Len(v.items) : "id" \in DOMAIN v.items[i]

----------------------------------------------------------------------------
(* The application. *)

\* Asset lists a previous session can have saved.
StoredLists ==
    { <<>>,
      <<[NewAsset("btc") EXCEPT !.holdings = 2, !.priceEur = 100, !.priceUsd = 110]>> }

\* What a previous session has left in the assets item.
SavedItems ==
    {AbsentItem} \cup { TextItem(JsonStringify(l)) : l \in StoredLists \ {<<>>} }

\* The search box as useState leaves it, no timer set and no request made.
SearchClosed ==
    /\ searchQuery = <<>>
    /\ searchResults = <<>>
    /\ isSearching = FALSE
    /\ showSearch = FALSE
    /\ timers = {}
    /\ cleanupTimer = 0
    /\ searchInflight = <<>>
    /\ typed = 0
    /\ quiet = 0

\* Mount: the useState initializers; every effect is still to run.
Init ==
    /\ storedAssets \in SavedItems
    /\ storedCurrency = AbsentItem
    /\ startup = [phase |-> "rendered", assetsState |-> InitialAssets(storedAssets)]
    /\ assets = InitialAssets(storedAssets).items
    /\ currency = InitialCurrency(storedCurrency)
    /\ SearchClosed
    /\ queryDue = TRUE
    /\ totalValue = 0
    /\ pricesLoading = FALSE
    /\ inflight = <<>>
    /\ effectsDue = TRUE
    /\ depLen = -1
    /\ issued = 0
    /\ edits = 0
    /\ last = Op("mount", {}, {})
    /\ shown = NothingShown

\* Handlers and completions run on a committed render whose effects have run.
Settled == ~effectsDue /\ ~queryDue

\* Mutant: addAsset without the check for a coin already present.
AddAssetUnchecked(coin) ==
    /\ Settled
    /\ issued + 2 <= MaxRequests
    /\ assets' = Append(assets, NewAsset(coin))
    /\ inflight' = Append(inflight, SingleRequest(coin))
    /\ issued' = issued + 1
    /\ effectsDue' = TRUE
    /\ last' = Op("addAsset", {coin}, {})
    /\ searchResults' = <<>>
    /\ showSearch' = FALSE
    /\ searchQuery' = <<>>
    /\ queryDue' = (searchQuery # <<>>)
    /\ quiet' = IF searchQuery # <<>> THEN 0 ELSE quiet
    /\ UNCHANGED <<currency, totalValue, pricesLoading, depLen, edits, shown, storeVars,
                   isSearching, timers, cleanupTimer, searchInflight, typed>>

\* addAsset(coin): a coin already present only closes the search box; a new
\* coin is appended and its follow-up price request is scheduled.
AddAsset(coin) ==
    /\ Settled
    /\ IF HasAsset(assets, coin)
       THEN /\ last' = Op("addAssetPresent", {coin}, {})
            /\ UNCHANGED <<assets, inflight, issued, effectsDue, searchResults>>
       ELSE /\ issued + 2 <= MaxRequests
            /\ assets' = Append(assets, NewAsset(coin))
            /\ inflight' = Append(inflight, SingleRequest(coin))
            /\ issued' = issued + 1
            /\ effectsDue' = TRUE
            /\ searchResults' = <<>>
            /\ last' = Op("addAsset", {coin}, {})
    /\ showSearch' = FALSE
    /\ searchQuery' = <<>>
    /\ queryDue' = (searchQuery # <<>>)
    /\ quiet' = IF searchQuery # <<>> THEN 0 ELSE quiet
    /\ UNCHANGED <<currency, totalValue, pricesLoading, depLen, edits, shown, storeVars,
                   isSearching, timers, cleanupTimer, searchInflight, typed>>

\* removeAsset(id)
RemoveAsset(id) ==
    /\ Settled
    /\ HasAsset(assets, id)
    /\ Len(assets) > 1 => issued + 1 <= MaxRequests
    /\ assets' = FilterOut(assets, id)
    /\ effectsDue' = TRUE
    /\ last' = Op("removeAsset", {id}, {})
    /\ UNCHANGED <<currency, totalValue, pricesLoading, inflight, depLen, issued, edits, shown, storeVars, searchVars>>

\* updateAsset(id, field, value), from a number input, the slider or a
\* category toggle of the card of asset id.
UpdateAsset(id, field, value) ==
    /\ Settled
    /\ HasAsset(assets, id)
    /\ edits < MaxEdits
    /\ assets' = UpdateList(assets, id, field, value)
    /\ effectsDue' = TRUE
    /\ edits' = edits + 1
    /\ last' = Op("updateAsset", {id}, {})
    /\ UNCHANGED <<currency, totalValue, pricesLoading, inflight, depLen, issued, shown, storeVars, searchVars>>

\* Mutant: a currency switch that also moves the stored prices over.
SetCurrencyConverting(c) ==
    /\ Settled
    /\ currency' = c
    /\ assets' = [i \in 1..Len(assets) |->
                     IF c # currency
                     THEN [assets[i] EXCEPT !.priceEur = assets[i].priceUsd,
                                            !.priceUsd = assets[i].priceEur]
                     ELSE assets[i]]
    /\ effectsDue' = (c # currency)
    /\ last' = Op("setCurrency", {}, {})
    /\ UNCHANGED <<totalValue, pricesLoading, inflight, depLen, issued, edits, shown, storeVars, searchVars>>

\* setCurrency(c): setting the current value again schedules nothing.
SetCurrency(c) ==
    /\ Settled
    /\ currency' = c
    /\ effectsDue' = (c # currency)
    /\ last' = Op("setCurrency", {}, {})
    /\ UNCHANGED <<assets, totalValue, pricesLoading, inflight, depLen, issued, edits, shown, storeVars, searchVars>>

\* The Refresh Prices button: fetchPrices up to its await.
Refresh ==
    /\ Settled
    /\ Len(assets) > 0
    /\ ~pricesLoading
    /\ issued + 1 <= MaxRequests
    /\ pricesLoading' = TRUE
    /\ inflight' = Append(inflight, BulkRequest(assets))
    /\ issued' = issued + 1
    /\ last' = Op("refresh", AssetIds(assets), {})
    /\ UNCHANGED <<assets, currency, totalValue, effectsDue, depLen, edits, shown, storeVars, searchVars>>

\* Mutant: a search effect whose cleanup does not clear its timer.
RunEffectsNoCleanup ==
    /\ effectsDue \/ queryDue
    /\ IF effectsDue
       THEN /\ storedAssets' = TextItem(JsonStringify(assets))
            /\ storedCurrency' = TextItem(currency)
            /\ IF Len(assets) # depLen /\ Len(assets) > 0
               THEN /\ pricesLoading' = TRUE
                    /\ inflight' = Append(inflight, BulkRequest(assets))
                    /\ issued' = issued + 1
               ELSE UNCHANGED <<pricesLoading, inflight, issued>>
            /\ depLen' = Len(assets)
            /\ totalValue' = SumValues(assets, currency)
       ELSE UNCHANGED <<storedAssets, storedCurrency, pricesLoading, inflight, issued,
                        depLen, totalValue>>
    /\ IF queryDue
       THEN IF Len(searchQuery) < 2
            THEN /\ searchResults' = <<>>
                 /\ cleanupTimer' = 0
                 /\ UNCHANGED timers
            ELSE /\ timers' = timers \cup {[id |-> typed, query |-> searchQuery,
                                           remaining |-> SearchDelay]}
                 /\ cleanupTimer' = typed
                 /\ UNCHANGED searchResults
       ELSE UNCHANGED <<timers, cleanupTimer, searchResults>>
    /\ effectsDue' = FALSE
    /\ queryDue' = FALSE
    /\ last' = Op("effects", {}, {})
    /\ UNCHANGED <<assets, currency, edits, shown, startup, searchQuery, isSearching,
                   showSearch, searchInflight, typed, quiet>>

\* The effects of a commit, those whose dependencies changed.  After a change
\* of assets or currency: save both items, fetch prices when assets.length
\* changed (and on mount), recompute totalValue.  After a change of
\* searchQuery: the cleanup of the previous search effect clears its timer,
\* then a text shorter than 2 empties the results and a longer one sets the
\* timer of the search.
RunEffects ==
    /\ effectsDue \/ queryDue
    /\ IF effectsDue
       THEN /\ storedAssets' = TextItem(JsonStringify(assets))
            /\ storedCurrency' = TextItem(currency)
            /\ IF Len(assets) # depLen /\ Len(assets) > 0
               THEN /\ pricesLoading' = TRUE
                    /\ inflight' = Append(inflight, BulkRequest(assets))
                    /\ issued' = issued + 1
               ELSE UNCHANGED <<pricesLoading, inflight, issued>>
            /\ depLen' = Len(assets)
            /\ totalValue' = SumValues(assets, currency)
       ELSE UNCHANGED <<storedAssets, storedCurrency, pricesLoading, inflight, issued,
                        depLen, totalValue>>
    /\ IF queryDue
       THEN LET kept == { t \in timers : t.id # cleanupTimer }
            IN  IF Len(searchQuery) < 2
                THEN /\ timers' = kept
                     /\ searchResults' = <<>>
                     /\ cleanupTimer' = 0
                ELSE /\ timers' = kept \cup {[id |-> typed, query |-> searchQuery,
                                             remaining |-> SearchDelay]}
                     /\ cleanupTimer' = typed
                     /\ UNCHANGED searchResults
       ELSE UNCHANGED <<timers, cleanupTimer, searchResults>>
    /\ effectsDue' = FALSE
    /\ queryDue' = FALSE
    /\ last' = Op("effects", {}, {})
    /\ UNCHANGED <<assets, currency, edits, shown, startup, searchQuery, isSearching,
                   showSearch, searchInflight, typed, quiet>>

\* A bulk request answers: the answer is merged into the list as it is now.
BulkDone(i, data) ==
    /\ Settled
    /\ inflight[i].kind = "bulk"
    /\ assets' = MergeBulk(assets, data)
    /\ pricesLoading' = FALSE
    /\ inflight' = RemoveAt(inflight, i)
    /\ effectsDue' = TRUE
    /\ last' = Op("bulkDone", inflight[i].ids, NoDataIds(data))
    /\ UNCHANGED <<currency, totalValue, depLen, issued, edits, shown, storeVars, searchVars>>

\* Mutant: the loading flag reset only on the success path.
BulkFailedKeepsLoading(i) ==
    /\ Settled
    /\ inflight[i].kind = "bulk"
    /\ inflight' = RemoveAt(inflight, i)
    /\ last' = Op("bulkFailed", inflight[i].ids, {})
    /\ UNCHANGED <<assets, currency, totalValue, pricesLoading, effectsDue, depLen, issued,
                   edits, shown, storeVars, searchVars>>

\* A bulk request fails (network error, unreadable answer): the catch branch.
BulkFailed(i) ==
    /\ Settled
    /\ inflight[i].kind = "bulk"
    /\ pricesLoading' = FALSE
    /\ inflight' = RemoveAt(inflight, i)
    /\ last' = Op("bulkFailed", inflight[i].ids, {})
    /\ UNCHANGED <<assets, currency, totalValue, effectsDue, depLen, issued, edits, shown, storeVars, searchVars>>

\* The follow-up request of addAsset answers.
SingleDone(i, data) ==
    /\ Settled
    /\ inflight[i].kind = "single"
    /\ assets' = MergeSingle(assets, CHOOSE c \in inflight[i].ids : TRUE, data)
    /\ inflight' = RemoveAt(inflight, i)
    /\ effectsDue' = TRUE
    /\ last' = Op("singleDone", inflight[i].ids, NoDataIds(data))
    /\ UNCHANGED <<currency, totalValue, pricesLoading, depLen, issued, edits, shown, storeVars, searchVars>>

\* The follow-up request of addAsset fails.
SingleFailed(i) ==
    /\ Settled
    /\ inflight[i].kind = "single"
    /\ inflight' = RemoveAt(inflight, i)
    /\ last' = Op("singleFailed", inflight[i].ids, {})
    /\ UNCHANGED <<assets, currency, totalValue, pricesLoading, effectsDue, depLen, issued, edits, shown, storeVars, searchVars>>

\* The + Add Asset button.
OpenSearch ==
    /\ Settled
    /\ ~showSearch
    /\ showSearch' = TRUE
    /\ last' = Op("openSearch", {}, {})
    /\ UNCHANGED <<assets, currency, totalValue, pricesLoading, inflight, effectsDue,
                   depLen, issued, edits, shown, storeVars, searchQuery, searchResults,
                   isSearching, timers, cleanupTimer, searchInflight, queryDue, typed,
                   quiet>>

\* onChange of the search input: setSearchQuery(e.target.value).
TypeQuery(q) ==
    /\ Settled
    /\ showSearch
    /\ q # searchQuery
    /\ typed < MaxKeystrokes
    /\ searchQuery' = q
    /\ queryDue' = TRUE
    /\ typed' = typed + 1
    /\ quiet' = 0
    /\ last' = Op("typeQuery", {}, {})
    /\ UNCHANGED <<assets, currency, totalValue, pricesLoading, inflight, effectsDue,
                   depLen, issued, edits, shown, storeVars, searchResults, isSearching,
                   showSearch, timers, cleanupTimer, searchInflight>>

\* The Cancel button of the search box.
CancelSearch ==
    /\ Settled
    /\ showSearch
    /\ showSearch' = FALSE
    /\ searchQuery' = <<>>
    /\ searchResults' = <<>>
    /\ queryDue' = (searchQuery # <<>>)
    /\ quiet' = IF searchQuery # <<>> THEN 0 ELSE quiet
    /\ last' = Op("cancelSearch", {}, {})
    /\ UNCHANGED <<assets, currency, totalValue, pricesLoading, inflight, effectsDue,
                   depLen, issued, edits, shown, storeVars, isSearching, timers,
                   cleanupTimer, searchInflight, typed>>

\* d milliseconds pass; no timer is overrun.
Tick(d) ==
    /\ Settled
    /\ \A t \in timers : t.remaining >= d
    /\ timers' = { [t EXCEPT !.remaining = @ - d] : t \in timers }
    /\ quiet' = IF quiet + d > SearchDelay THEN SearchDelay ELSE quiet + d
    /\ last' = Op("tick", {}, {})
    /\ UNCHANGED <<assets, currency, totalValue, pricesLoading, inflight, effectsDue,
                   depLen, issued, edits, shown, storeVars, searchQuery, searchResults,
                   isSearching, showSearch, cleanupTimer, searchInflight, queryDue, typed>>

\* The callback of a search timer, up to its await: the request is issued
\* for the text the timer was set for.
TimerFires(t) ==
    /\ Settled
    /\ t \in timers
    /\ t.remaining = 0
    /\ timers' = timers \ {t}
    /\ isSearching' = TRUE
    /\ searchInflight' = Append(searchInflight, t.query)
    /\ last' = Op("timerFires", {}, {})
    /\ UNCHANGED <<assets, currency, totalValue, pricesLoading, inflight, effectsDue,
                   depLen, issued, edits, shown, storeVars, searchQuery, searchResults,
                   showSearch, cleanupTimer, queryDue, typed, quiet>>

\* A search request answers.
SearchDone(i, coins) ==
    /\ Settled
    /\ searchResults' = coins
    /\ isSearching' = FALSE
    /\ searchInflight' = RemoveAt(searchInflight, i)
    /\ last' = Op("searchDone", {}, {})
    /\ UNCHANGED <<assets, currency, totalValue, pricesLoading, inflight, effectsDue,
                   depLen, issued, edits, shown, storeVars, searchQuery, showSearch,
                   timers, cleanupTimer, queryDue, typed, quiet>>

\* Mutant: a failed search that leaves the results on display.
SearchFailedKeepsResults(i) ==
    /\ Settled
    /\ isSearching' = FALSE
    /\ searchInflight' = RemoveAt(searchInflight, i)
    /\ last' = Op("searchFailed", {}, {})
    /\ UNCHANGED <<assets, currency, totalValue, pricesLoading, inflight, effectsDue,
                   depLen, issued, edits, shown, storeVars, searchQuery, searchResults,
                   showSearch, timers, cleanupTimer, queryDue, typed, quiet>>

\* A search request fails: the catch branch.
SearchFailed(i) ==
    /\ Settled
    /\ searchResults' = <<>>
    /\ isSearching' = FALSE
    /\ searchInflight' = RemoveAt(searchInflight, i)
    /\ last' = Op("searchFailed", {}, {})
    /\ UNCHANGED <<assets, currency, totalValue, pricesLoading, inflight, effectsDue,
                   depLen, issued, edits, shown, storeVars, searchQuery, showSearch,
                   timers, cleanupTimer, queryDue, typed, quiet>>

Next ==
    \/ \E coin \in Ids : AddAsset(coin)
    \/ \E id \in Ids : RemoveAsset(id)
    \/ \E id \in Ids, field \in NumericFields, text \in InputTexts : UpdateAsset(id, field, text)
    \/ \E id \in Ids, cat \in Categories : UpdateAsset(id, "category", cat)
    \/ \E c \in Currencies : SetCurrency(c)
    \/ Refresh
    \/ RunEffects
    \/ \E i \in 1..Len(inflight) : \E data \in Answers(inflight[i]) : BulkDone(i, data)
    \/ \E i \in 1..Len(inflight) : BulkFailed(i)
    \/ \E i \in 1..Len(inflight) : \E data \in Answers(inflight[i]) : SingleDone(i, data)
    \/ \E i \in 1..Len(inflight) : SingleFailed(i)

Spec == Init /\ [][Next]_vars

----------------------------------------------------------------------------
(* The valuation functions on their own: a render of a drawn portfolio.    *)
(* totalValue is drawn independently of the list, as the functions take it *)
(* from the state whatever it is.                                          *)

CalcHoldings == {-1, 0, 1, 2}

CalcTargets == {0, 50, 100, 150}

CalcPricesEur == {0, 50, 100}

CalcPricesUsd == {0, 55}

CalcTotals == {-100, 0, 98, 100, 101, 102, 200}

CalcAssets(coin) ==
    { [NewAsset(coin) EXCEPT !.holdings = h, !.targetPercent = t,
                             !.priceEur = pe, !.priceUsd = pu] :
        h \in CalcHoldings, t \in CalcTargets, pe \in CalcPricesEur, pu \in CalcPricesUsd }

\* Second assets of a drawn two-asset portfolio.
CalcSecondAssets ==
    { [NewAsset("eth") EXCEPT !.holdings = h, !.targetPercent = 50,
                              !.priceEur = 50, !.priceUsd = 55] : h \in {0, 1} }

CalcBuyPrices == {0, 80, 120}

\* Assets with a cost basis, for the profit and loss figures.
PnLAssets(coin) ==
    { [NewAsset(coin) EXCEPT !.holdings = h, !.buyPrice = b,
                             !.priceEur = 100, !.priceUsd = 110] :
        h \in {-1, 0, 5}, b \in CalcBuyPrices }

\* Assets of a three-asset portfolio, with values that tie.
SortAssets(coin) ==
    { [NewAsset(coin) EXCEPT !.holdings = h, !.priceEur = pe, !.priceUsd = 55] :
        h \in {0, 1, 2}, pe \in {50, 100} }

\* Assets of a three-asset portfolio with targets, each within 0..100.
TargetAssets(coin) ==
    { [NewAsset(coin) EXCEPT !.holdings = h, !.targetPercent = t,
                             !.priceEur = 100, !.priceUsd = 110] :
        h \in {0, 1}, t \in {0, 50, 100} }

CalcLists ==
    { <<a>> : a \in CalcAssets("btc") }
      \cup { <<a, b>> : a \in CalcAssets("btc"), b \in CalcSecondAssets }
      \cup { <<a>> : a \in PnLAssets("btc") }
      \cup { <<a, b>> : a \in PnLAssets("btc"), b \in PnLAssets("eth") }
      \cup { <<a, b, c>> : a \in SortAssets("btc"), b \in SortAssets("eth"),
                           c \in SortAssets("sol") }
      \cup { <<a, b, c>> : a \in TargetAssets("btc"), b \in TargetAssets("eth"),
                           c \in TargetAssets("sol") }

InitCalc ==
    /\ assets \in CalcLists
    /\ currency \in Currencies
    /\ totalValue \in CalcTotals \cup {SumValues(assets, currency)}
    /\ pricesLoading = FALSE
    /\ inflight = <<>>
    /\ effectsDue = FALSE
    /\ depLen = Len(assets)
    /\ issued = 0
    /\ edits = 0
    /\ last = Op("effects", {}, {})
    /\ shown = NothingShown
    /\ storedAssets = TextItem(JsonStringify(assets))
    /\ storedCurrency = TextItem(currency)
    /\ startup = [phase |-> "rendered", assetsState |-> ListValue(assets)]
    /\ SearchClosed
    /\ queryDue = FALSE

\* renderAssetCard / exportToCSV: the rebalance action of the i-th asset.
ShowRebalance(i) ==
    /\ shown' = [view |-> "rebalance", asset |-> assets[i],
                 action |-> getRebalanceAction(assets[i])]
    /\ UNCHANGED <<assets, currency, totalValue, pricesLoading, inflight, effectsDue,
                   depLen, issued, edits, last, storeVars, searchVars>>

\* The header: the allocation health score.
ShowHealth ==
    /\ shown' = [view |-> "health", score |-> calculateHealthScore]
    /\ UNCHANGED <<assets, currency, totalValue, pricesLoading, inflight, effectsDue,
                   depLen, issued, edits, last, storeVars, searchVars>>

\* The asset lists of the page and the CSV rows: sortedAssets.
ShowSorted ==
    /\ shown' = [view |-> "sorted", sorted |-> sortedAssets]
    /\ UNCHANGED <<assets, currency, totalValue, pricesLoading, inflight, effectsDue,
                   depLen, issued, edits, last, storeVars, searchVars>>

\* The header: total profit and loss, its cost basis and its percentage.
ShowPnL ==
    /\ shown' = [view |-> "pnl", totalPnL |-> totalPnL,
                 totalCostBasis |-> totalCostBasis, pnlPercent |-> pnlPercent]
    /\ UNCHANGED <<assets, currency, totalValue, pricesLoading, inflight, effectsDue,
                   depLen, issued, edits, last, storeVars, searchVars>>

NextCalc ==
    \/ \E i \in 1..Len(assets) : ShowRebalance(i)
    \/ ShowHealth
    \/ ShowSorted
    \/ ShowPnL

SpecCalc == InitCalc /\ [][NextCalc]_vars

----------------------------------------------------------------------------
(* The merges of a price response, applied to drawn lists and responses. *)

\* Entries of a price response: any of eur, usd and the 24h change can be
\* absent or zero (0) while the others are there.
MergeAnswers ==
    { [has |-> e # 0 \/ u # 0 \/ c # 0, eur |-> e, usd |-> u, change |-> c] :
        e \in {0, 100, 120}, u \in {0, 110}, c \in {0, 3} }

MergeResponses == [Ids -> MergeAnswers]

MergeAssets(coin) ==
    { [NewAsset(coin) EXCEPT !.holdings = 2, !.priceEur = pe, !.priceUsd = pu,
                             !.change24h = c] :
        pe \in {0, 90}, pu \in {0, 99}, c \in {0, -2} }

MergeLists ==
    { <<>> } \cup { <<a>> : a \in MergeAssets("btc") }
      \cup { <<a, b>> : a \in MergeAssets("btc"), b \in MergeAssets("eth") }

InitMerge ==
    /\ assets \in MergeLists
    /\ currency = "eur"
    /\ totalValue = SumValues(assets, currency)
    /\ pricesLoading = FALSE
    /\ inflight = <<>>
    /\ effectsDue = FALSE
    /\ depLen = Len(assets)
    /\ issued = 0
    /\ edits = 0
    /\ last = Op("effects", {}, {})
    /\ shown = NothingShown
    /\ storedAssets = TextItem(JsonStringify(assets))
    /\ storedCurrency = TextItem(currency)
    /\ startup = [phase |-> "rendered", assetsState |-> ListValue(assets)]
    /\ SearchClosed
    /\ queryDue = FALSE

\* fetchPrices: the merge of one response, applied once and once more.
BulkMergeTwice(data) ==
    /\ shown = NothingShown
    /\ shown' = [view |-> "merge", kind |-> "bulk", data |-> data,
                 once  |-> MergeBulk(assets, data),
                 twice |-> MergeBulk(MergeBulk(assets, data), data)]
    /\ UNCHANGED <<assets, currency, totalValue, pricesLoading, inflight, effectsDue,
                   depLen, issued, edits, last, storeVars, searchVars>>

\* addAsset follow-up: the merge of one response, applied once and once more.
SingleMergeTwice(coin, data) ==
    /\ shown = NothingShown
    /\ shown' = [view |-> "merge", kind |-> "single", data |-> data,
                 once  |-> MergeSingle(assets, coin, data),
                 twice |-> MergeSingle(MergeSingle(assets, coin, data), coin, data)]
    /\ UNCHANGED <<assets, currency, totalValue, pricesLoading, inflight, effectsDue,
                   depLen, issued, edits, last, storeVars, searchVars>>

NextMerge ==
    \/ \E data \in MergeResponses : BulkMergeTwice(data)
    \/ \E coin \in Ids, data \in MergeResponses : SingleMergeTwice(coin, data)

SpecMerge == InitMerge /\ [][NextMerge]_vars

----------------------------------------------------------------------------
(* The search box: the debounced search and the choice of a coin. *)

\* A coin is chosen from the results shown.
ChooseResult(coin) ==
    /\ showSearch
    /\ ~isSearching
    /\ \E k \in 1..Len(searchResults) : searchResults[k] = coin
    /\ AddAsset(coin)

NextSearch ==
    \/ OpenSearch
    \/ \E q \in Queries : TypeQuery(q)
    \/ CancelSearch
    \/ \E coin \in Ids : ChooseResult(coin)
    \/ RunEffects
    \/ \E d \in TickSteps : Tick(d)
    \/ \E t \in timers : TimerFires(t)
    \/ \E i \in 1..Len(searchInflight) : \E coins \in SearchAnswers : SearchDone(i, coins)
    \/ \E i \in 1..Len(searchInflight) : SearchFailed(i)

SpecSearch == Init /\ [][NextSearch]_vars

----------------------------------------------------------------------------
(* Startup: the initializers applied to whatever the two items hold. *)

\* Lists a session can have saved.
StartupLists ==
    { <<>>,
      <<[NewAsset("btc") EXCEPT !.holdings = 2, !.priceEur = 100, !.priceUsd = 110]>>,
      <<[NewAsset("btc") EXCEPT !.holdings = -1, !.buyPrice = 80, !.category = "safe"],
        [NewAsset("eth") EXCEPT !.targetPercent = 150, !.change24h = -2]>> }

\* Texts of the assets item: empty, no JSON, JSON that is no list (null, 5,
\* {}), a list of something else ([null]), and saved lists.
StoredAssetTexts ==
    { EmptyText, GarbageText, JsonNull, [type |-> "number", lex |-> JsonNumber(5)],
      [type |-> "emptyobject"],
      [type |-> "array", items |-> <<JsonNull>>] }
      \cup { JsonStringify(l) : l \in StartupLists }

StoredAssetItems ==
    {AbsentItem, UnreadableItem} \cup { TextItem(t) : t \in StoredAssetTexts }

StoredCurrencyItems ==
    {AbsentItem, UnreadableItem} \cup { TextItem(c) : c \in {"", "eur", "usd", "gbp"} }

\* Before App is first called.
InitStartup ==
    /\ storedAssets \in StoredAssetItems
    /\ storedCurrency \in StoredCurrencyItems
    /\ startup = [phase |-> "boot"]
    /\ assets = <<>>
    /\ currency = "eur"
    /\ totalValue = 0
    /\ pricesLoading = FALSE
    /\ inflight = <<>>
    /\ effectsDue = FALSE
    /\ depLen = -1
    /\ issued = 0
    /\ edits = 0
    /\ last = Op("boot", {}, {})
    /\ shown = NothingShown
    /\ SearchClosed
    /\ queryDue = FALSE

\* The first call of App: the useState initializers, then the render.  The
\* render of a value that is no list of assets throws, and nothing is
\* mounted: startup keeps that value and no effect runs.
Mount ==
    /\ startup.phase = "boot"
    /\ LET v == InitialAssets(storedAssets)
       IN  /\ startup' = [phase |-> IF IsAssetList(v) THEN "rendered" ELSE "crashed",
                          assetsState |-> v]
           /\ assets' = IF IsAssetList(v) THEN v.items ELSE <<>>
           /\ effectsDue' = IsAssetList(v)
           /\ queryDue' = IsAssetList(v)
    /\ currency' = InitialCurrency(storedCurrency)
    /\ last' = Op("mount", {}, {})
    /\ UNCHANGED <<totalValue, pricesLoading, inflight, depLen, issued, edits, shown,
                   storedAssets, storedCurrency, searchQuery, searchResults, isSearching,
                   showSearch, timers, cleanupTimer, searchInflight, typed, quiet>>

NextStartup ==
    \/ Mount
    \/ RunEffects

SpecStartup == InitStartup /\ [][NextStartup]_vars

----------------------------------------------------------------------------
(* Overlapping price fetches for one asset.  addAsset schedules its         *)
(* follow-up fetch 100 ms ahead, and the length effect issues the bulk      *)
(* fetch with the commit: the bulk fetch is the earlier of the two, the     *)
(* follow-up the most recently issued.  The price has moved in between:     *)
(* the follow-up carries the fresher price.                                 *)

\* What the most recently issued fetch carries for an id.
FresherAnswer == [has |-> TRUE, eur |-> 120, usd |-> 130, change |-> 4]

FresherAnswers(req) ==
    { [id \in Ids |-> IF id \in req.ids THEN FresherAnswer ELSE NoData] }

NextRace ==
    \/ \E coin \in Ids : AddAsset(coin)
    \/ RunEffects
    \/ \E i \in 1..Len(inflight) : \E data \in Answers(inflight[i]) : BulkDone(i, data)
    \/ \E i \in 1..Len(inflight) :
           \E data \in FresherAnswers(inflight[i]) : SingleDone(i, data)

SpecRace == Init /\ [][NextRace]_vars

----------------------------------------------------------------------------
(* The price requests under fair scheduling: React runs the effects of a   *)
(* commit, and every fetch settles, with an answer or with an error.       *)

\* A price request in flight resolves or rejects.
PriceCompletion ==
    \E i \in 1..Len(inflight) :
        \/ \E data \in Answers(inflight[i]) : BulkDone(i, data)
        \/ BulkFailed(i)
        \/ \E data \in Answers(inflight[i]) : SingleDone(i, data)
        \/ SingleFailed(i)

NextLive ==
    \/ \E coin \in Ids : AddAsset(coin)
    \/ \E id \in Ids : RemoveAsset(id)
    \/ Refresh
    \/ RunEffects
    \/ PriceCompletion

SpecLive ==
    Init /\ [][NextLive]_vars /\ WF_vars(RunEffects) /\ WF_vars(PriceCompletion)

----------------------------------------------------------------------------
(* The asset cards on their own: adding, editing and removing assets, with *)
(* the effects of each commit.                                             *)

NextEdit ==
    \/ \E coin \in Ids : AddAsset(coin)
    \/ \E id \in Ids : RemoveAsset(id)
    \/ \E id \in Ids, field \in NumericFields, text \in InputTexts : UpdateAsset(id, field, text)
    \/ \E id \in Ids, cat \in Categories : UpdateAsset(id, "category", cat)
    \/ RunEffects

SpecEdit == Init /\ [][NextEdit]_vars

----------------------------------------------------------------------------
(* The asset cards over a planned portfolio: a previous session has saved  *)
(* a list whose targets sum to 100.                                        *)

PlannedLists ==
    { <<[NewAsset("btc") EXCEPT !.holdings = 2, !.targetPercent = 100,
                                !.priceEur = 100, !.priceUsd = 110]>>,
      <<[NewAsset("btc") EXCEPT !.holdings = 1, !.targetPercent = 50,
                                !.priceEur = 100, !.priceUsd = 110],
        [NewAsset("eth") EXCEPT !.holdings = 4, !.targetPercent = 50,
                                !.priceEur = 50, !.priceUsd = 55]>> }

\* Mount over a planned list.
InitPlan ==
    /\ storedAssets \in { TextItem(JsonStringify(l)) : l \in PlannedLists }
    /\ storedCurrency = AbsentItem
    /\ startup = [phase |-> "rendered", assetsState |-> InitialAssets(storedAssets)]
    /\ assets = InitialAssets(storedAssets).items
    /\ currency = InitialCurrency(storedCurrency)
    /\ SearchClosed
    /\ queryDue = TRUE
    /\ totalValue = 0
    /\ pricesLoading = FALSE
    /\ inflight = <<>>
    /\ effectsDue = TRUE
    /\ depLen = -1
    /\ issued = 0
    /\ edits = 0
    /\ last = Op("mount", {}, {})
    /\ shown = NothingShown

SpecPlan == InitPlan /\ [][NextEdit]_vars

----------------------------------------------------------------------------
(* The search box with a source whose answer depends on the text asked    *)
(* for: the longer text matches fewer coins.                              *)

\* data.coins.slice(0, 8) of the answer to a query, as coin ids.
ResultsFor(q) == IF Len(q) >= 3 THEN <<"btc">> ELSE <<"btc", "eth">>

NextLookup ==
    \/ OpenSearch
    \/ \E q \in Queries : TypeQuery(q)
    \/ CancelSearch
    \/ \E coin \in Ids : ChooseResult(coin)
    \/ RunEffects
    \/ \E d \in TickSteps : Tick(d)
    \/ \E t \in timers : TimerFires(t)
    \/ \E i \in 1..Len(searchInflight) : SearchDone(i, ResultsFor(searchInflight[i]))
    \/ \E i \in 1..Len(searchInflight) : SearchFailed(i)

SpecLookup == Init /\ [][NextLookup]_vars

----------------------------------------------------------------------------
(* Claims. *)

\* targetValue = targetPercent / 100 * totalValue, in hundredths
TargetValueC(a) == a.targetPercent * totalValue

\* the asset's value in the selected currency, in hundredths
CurrentValueC(a) ==
    100 * a.holdings * (IF currency = "eur" THEN a.priceEur ELSE a.priceUsd)

\* C1: getRebalanceAction returns no action whenever |targetValue - value| < 1,
\* BUY if and only if targetValue exceeds value by at least 1, and SELL if and
\* only if targetValue is below value by at least 1.
C1_RebalanceDirection ==
    shown.view = "rebalance" =>
        LET a  == shown.asset
            tv == TargetValueC(a)
            v  == CurrentValueC(a)
        IN  /\ Abs(tv - v) < 100 => shown.action = Null
            /\ shown.action.action = "BUY" <=> tv >= v + 100
            /\ shown.action.action = "SELL" <=> tv <= v - 100

\* C1 witness: a BUY shown for a difference of exactly one currency unit.
C1_Witness ==
    /\ shown.view = "rebalance"
    /\ shown.action.action = "BUY"
    /\ TargetValueC(shown.asset) = CurrentValueC(shown.asset) + 100

ScenarioB ==
    << [NewAsset("btc") EXCEPT !.holdings = 1, !.targetPercent = 50,
                               !.priceEur = 100, !.priceUsd = 0],
       [NewAsset("eth") EXCEPT !.holdings = 0, !.targetPercent = 50,
                               !.priceEur = 50, !.priceUsd = 55] >>

\* C2: a returned action's amount is |targetValue - value|; its units are
\* |difference / price| when the price in the selected currency is > 0 and 0
\* when that price is 0; scenario B gives SELL of 50 and BUY of 50.
C2_RebalanceAmount ==
    shown.view = "rebalance" =>
        LET a     == shown.asset
            r     == shown.action
            price == IF currency = "eur" THEN a.priceEur ELSE a.priceUsd
        IN  /\ r # Null =>
                /\ r.amountC = Abs(TargetValueC(a) - CurrentValueC(a))
                /\ r.units.den > 0
                /\ price > 0 => r.units.num * 100 * price = r.amountC * r.units.den
                /\ price = 0 => r.units.num = 0
            /\ (assets = ScenarioB /\ currency = "eur" /\ totalValue = 100) =>
                /\ a.id = "btc" => r.action = "SELL" /\ r.amountC = 5000
                /\ a.id = "eth" => r.action = "BUY" /\ r.amountC = 5000

\* C2 witness: scenario B's second asset shown with its BUY of 50, one unit.
C2_Witness ==
    /\ assets = ScenarioB /\ currency = "eur" /\ totalValue = 100
    /\ shown.view = "rebalance"
    /\ shown.asset.id = "eth"
    /\ shown.action.action = "BUY"
    /\ shown.action.units.num = shown.action.units.den

RECURSIVE SumPercentNum(_)
SumPercentNum(list) ==
    IF list = <<>> THEN 0 ELSE getCurrentPercent(Head(list)).num + SumPercentNum(Tail(list))

\* C3: the sum of getCurrentPercent over all assets equals 100 when
\* totalValue > 0, and getCurrentPercent is 0 for every asset when
\* totalValue = 0 (the percentages share the denominator totalValue).
C3_PercentSum ==
    /\ totalValue > 0 => SumPercentNum(assets) = 100 * totalValue
    /\ totalValue = 0 => \A i \in 1..Len(assets) : getCurrentPercent(assets[i]).num = 0

\* C4: the totalValue the derived values use equals the sum over the current
\* asset list of holdings times the price in the selected currency.
C4_TotalValueFresh ==
    totalValue = SumValues(assets, currency)

\* C5: every asset's holdings, buyPrice, priceEur and priceUsd are numbers
\* that are neither NaN nor negative.
C5_NonNegativeFields ==
    \A i \in 1..Len(assets) :
        /\ assets[i].holdings \in Nat
        /\ assets[i].buyPrice \in Nat
        /\ assets[i].priceEur \in Nat
        /\ assets[i].priceUsd \in Nat

UniqueIds ==
    \A i, j \in 1..Len(assets) : assets[i].id = assets[j].id => i = j

\* C7: no two assets share an id; addAsset of a coin already present leaves
\* the list unchanged, and addAsset of a new coin appends exactly one asset
\* whose holdings, buyPrice, targetPercent and prices are 0.
C7_UniqueIds ==
    /\ []UniqueIds
    /\ [][ \A coin \in Ids :
             /\ (last'.op = "addAssetPresent" /\ last'.ids = {coin}) =>
                    /\ HasAsset(assets, coin)
                    /\ assets' = assets
             /\ (last'.op = "addAsset" /\ last'.ids = {coin}) =>
                    /\ ~HasAsset(assets, coin)
                    /\ Len(assets') = Len(assets) + 1
                    /\ SubSeq(assets', 1, Len(assets)) = assets
                    /\ LET a == assets'[Len(assets')]
                       IN  /\ a.id = coin
                           /\ a.holdings = 0 /\ a.buyPrice = 0 /\ a.targetPercent = 0
                           /\ a.priceEur = 0 /\ a.priceUsd = 0 ]_vars

\* C7 witness: addAsset has just been called with a coin of a two-asset list.
C7_Witness ==
    /\ last.op = "addAssetPresent"
    /\ Len(assets) = 2
    /\ \E i \in 1..Len(assets) : assets[i].id \in last.ids

\* C8: when a bulk refresh completes with no data for an asset of the list,
\* that asset's priceEur and priceUsd keep the values they had.
C8_BulkKeepsPrice ==
    [][ last'.op = "bulkDone" =>
            /\ Len(assets') = Len(assets)
            /\ \A k \in 1..Len(assets) :
                   assets[k].id \in last'.nodata =>
                       /\ assets'[k].priceEur = assets[k].priceEur
                       /\ assets'[k].priceUsd = assets[k].priceUsd ]_vars

\* C8 witness: a bulk refresh has completed without data for an asset it
\* asked for, whose price is non-zero.
C8_Witness ==
    /\ last.op = "bulkDone"
    /\ \E k \in 1..Len(assets) :
           /\ assets[k].id \in last.ids
           /\ assets[k].id \in last.nodata
           /\ assets[k].priceEur # 0
           /\ assets[k].priceUsd # 0

\* C9: once an asset's stored price is non-zero, no fetch completion (bulk
\* or follow-up) whose answer lacks data for that id sets it back to 0.
C9_NoRegressToZero ==
    [][ last'.op \in {"bulkDone", "singleDone"} =>
            \A k \in 1..Len(assets) :
                (k <= Len(assets') /\ assets[k].id \in last'.nodata) =>
                    /\ assets[k].priceEur # 0 => assets'[k].priceEur # 0
                    /\ assets[k].priceUsd # 0 => assets'[k].priceUsd # 0 ]_vars

\* The fields of an asset that are not price data.
UserFields(a) == <<a.id, a.holdings, a.buyPrice, a.targetPercent, a.category>>

\* C10: a price-fetch completion merges into the list as it is at completion
\* time: it adds, removes and reorders nothing and leaves every asset's
\* holdings, buyPrice, targetPercent and category as they are.
C10_CompletionKeepsEdits ==
    [][ last'.op \in {"bulkDone", "singleDone"} =>
            /\ Len(assets') = Len(assets)
            /\ \A k \in 1..Len(assets) : UserFields(assets'[k]) = UserFields(assets[k]) ]_vars

\* C10 witness: a bulk refresh issued for another set of ids than the list
\* now holds has completed, after an edit, on a list with an edited asset.
C10_Witness ==
    /\ last.op = "bulkDone"
    /\ last.ids # AssetIds(assets)
    /\ Len(assets) > 0
    /\ edits > 0
    /\ \E k \in 1..Len(assets) : assets[k].holdings # 0 /\ assets[k].id \notin last.ids

\* C11 as stated: when a price fetch of either kind fails, the asset list
\* is left as it was and pricesLoading is reset to false.
C11_FailureResetsLoading ==
    [][ last'.op \in {"bulkFailed", "singleFailed"} =>
            /\ assets' = assets
            /\ pricesLoading' = FALSE ]_vars

\* C11 amended: a failed price fetch of either kind leaves the asset list as
\* it was; a failed bulk fetch resets pricesLoading to false, a failed
\* follow-up fetch of addAsset leaves pricesLoading as it is.
C11_FailureKeepsList ==
    [][ /\ last'.op \in {"bulkFailed", "singleFailed"} => assets' = assets
        /\ last'.op = "bulkFailed" => pricesLoading' = FALSE
        /\ last'.op = "singleFailed" => pricesLoading' = pricesLoading ]_vars

\* C11 witness: a bulk fetch has failed while pricesLoading was set, on a
\* list with a stored price.
C11_Witness ==
    /\ last.op = "bulkFailed"
    /\ ~pricesLoading
    /\ \E k \in 1..Len(assets) : assets[k].id \in last.ids /\ assets[k].priceEur # 0

\* C12: a currency switch changes only the currency selection: no asset
\* field changes in the step, and once the effects have run the derived
\* values are those of the list in the selected currency, so switching back
\* gives the original values again.
C12_CurrencySwitchFrame ==
    /\ [][ last'.op = "setCurrency" =>
               /\ assets' = assets
               /\ currency' \in Currencies
               /\ UNCHANGED <<totalValue, pricesLoading, inflight>> ]_vars
    /\ [](Settled => totalValue = SumValues(assets, currency))

\* C12 witness: the list has been switched to usd and revalued there, with
\* prices that differ between the currencies.
C12_Witness ==
    /\ Settled
    /\ currency = "usd"
    /\ totalValue # 0
    /\ totalValue # SumValues(assets, "eur")

\* C13: calculateHealthScore returns 100 when there are no assets or totalValue
\* is 0, and otherwise max(0, 100 - totalDeviation / 2) rounded to the nearest
\* integer; the result is always an integer in [0, 100].
C13_HealthScore ==
    shown.view = "health" =>
        LET r  == shown.score
            t  == Abs(totalValue)
            \* 2 * |totalValue| * max(0, 100 - totalDeviation / 2)
            s2 == Max0(200 * t - DeviationNum(assets))
        IN  /\ r \in 0..100
            /\ (Len(assets) = 0 \/ totalValue = 0) => r = 100
            /\ (Len(assets) # 0 /\ totalValue # 0) =>
                   /\ 2 * t * r - s2 <= t
                   /\ s2 - 2 * t * r < t

\* C13 witness: a score strictly between 0 and 100 that needed rounding.
C13_Witness ==
    /\ shown.view = "health"
    /\ shown.score \in 1..99
    /\ Len(assets) = 2
    /\ totalValue # 0
    /\ Max0(200 * Abs(totalValue) - DeviationNum(assets)) % (2 * Abs(totalValue)) # 0

\* The injective maps from the places of the sorted list to the places of assets.
Placements(n) ==
    { p \in [1..n -> 1..n] : \A i, j \in 1..n : p[i] = p[j] => i = j }

\* C14: sortedAssets is a permutation of the asset list in descending order of
\* value in the selected currency, and assets of equal value keep the relative
\* order they have in the asset list.
C14_SortedStable ==
    shown.view = "sorted" =>
        LET s == shown.sorted
            n == Len(assets)
        IN  /\ Len(s) = n
            /\ \E p \in Placements(n) :
                   /\ \A i \in 1..n : s[i] = assets[p[i]]
                   /\ \A i, j \in 1..n :
                          i < j =>
                              /\ ValueIn(s[i], currency) >= ValueIn(s[j], currency)
                              /\ ValueIn(s[i], currency) = ValueIn(s[j], currency)
                                     => p[i] < p[j]

\* C14 witness: three assets, the first and the last of equal value, the
\* second worth more, shown sorted.
C14_Witness ==
    /\ shown.view = "sorted"
    /\ Len(assets) = 3
    /\ ValueIn(assets[1], currency) = ValueIn(assets[3], currency)
    /\ ValueIn(assets[2], currency) > ValueIn(assets[1], currency)
    /\ shown.sorted = <<assets[2], assets[1], assets[3]>>

\* The sum of holdings * buyPrice over the places 1..k of a list.
RECURSIVE CostUpTo(_, _)
CostUpTo(list, k) ==
    IF k = 0 THEN 0 ELSE CostUpTo(list, k - 1) + list[k].holdings * list[k].buyPrice

ScenarioD ==
    << [NewAsset("btc") EXCEPT !.holdings = 5, !.buyPrice = 80,
                               !.priceEur = 100, !.priceUsd = 110] >>

\* C15: totalPnL is the sum of holdings * price - holdings * buyPrice,
\* totalCostBasis the sum of holdings * buyPrice, and pnlPercent is
\* totalPnL / totalCostBasis * 100 when totalCostBasis > 0 and 0 otherwise;
\* scenario D gives a profit of 100 and 25 percent.
C15_ProfitAndLoss ==
    shown.view = "pnl" =>
        LET cost  == CostUpTo(assets, Len(assets))
            value == SumValues(assets, currency)
            pct   == shown.pnlPercent
        IN  /\ shown.totalCostBasis = cost
            /\ shown.totalPnL = value - cost
            /\ pct.den # 0
            /\ cost > 0 => pct.num * cost = (value - cost) * 100 * pct.den
            /\ cost <= 0 => pct.num = 0
            /\ (assets = ScenarioD /\ currency = "eur") =>
                   /\ shown.totalPnL = 100
                   /\ pct.num = 25 * pct.den

\* C15 witness: scenario D shown with its profit of 100.
C15_Witness ==
    /\ assets = ScenarioD /\ currency = "eur"
    /\ shown.view = "pnl"
    /\ shown.totalPnL = 100
    /\ shown.totalCostBasis = 400

\* Texts parseFloat reads no number from.
UnparsableTexts == { <<>>, <<"a", "b">>, <<"-">> }

\* C16: an unparsable or empty text written to holdings, buyPrice or
\* targetPercent through updateAsset is stored as 0; the update is not
\* rejected.
C16_UnparsableStoredAsZero ==
    [][ last'.op = "updateAsset" =>
            \A id \in last'.ids, field \in NumericFields, text \in UnparsableTexts \cap InputTexts :
                UpdateAsset(id, field, text) =>
                    \A k \in 1..Len(assets') :
                        assets'[k].id = id => assets'[k][field] = 0 ]_vars

\* C16 witness: the holdings of a valued asset have just been overwritten
\* with 0.
C16_Witness ==
    /\ last.op = "updateAsset"
    /\ totalValue > 0
    /\ \E k \in 1..Len(assets) :
           /\ assets[k].id \in last.ids
           /\ assets[k].holdings = 0
           /\ assets[k].priceEur > 0

\* C17: the search is debounced: a search request is issued only for a text
\* of at least 2 characters that has stayed unchanged for the whole delay of
\* 500 ms; a change of the text cancels the pending timer, so that once the
\* effects have run a pending timer is the one set at the last change, for
\* the text as it is; and at most one search timer is pending at any time.
C17_SearchDebounced ==
    /\ [](Cardinality(timers) <= 1)
    /\ [](Settled =>
             \A t \in timers : t.query = searchQuery /\ t.remaining + quiet = SearchDelay)
    /\ [][ last'.op = "timerFires" =>
               LET q == searchInflight'[Len(searchInflight')]
               IN  /\ Len(q) >= 2
                   /\ q = searchQuery
                   /\ quiet >= SearchDelay
                   /\ SearchDelay = 500 ]_vars

\* C17 witness: after two changes of the text one request has been issued,
\* for the text as it is, a full delay after the last change.
C17_Witness ==
    /\ last.op = "timerFires"
    /\ typed = 2
    /\ searchInflight = <<searchQuery>>
    /\ Len(searchQuery) = 3
    /\ quiet = SearchDelay
    /\ timers = {}

C19_StartupWellFormed ==
    startup.phase # "boot" =>
        /\ startup.phase = "rendered"
        /\ IsAssetList(startup.assetsState)
        /\ currency \in Currencies
        /\ (storedAssets.kind # "text" \/ storedAssets.text \in {EmptyText, GarbageText})
               => startup.assetsState = ListValue(<<>>)

\* C20: applying the same price response to the asset list twice gives the
\* list that applying it once gives, for the bulk merge of fetchPrices and
\* for the single-asset merge of the addAsset follow-up.
C20_MergeIdempotent ==
    shown.view = "merge" =>
        /\ shown.twice = shown.once
        /\ Len(shown.once) = Len(assets)
        /\ \A k \in 1..Len(assets) : shown.once[k].id = assets[k].id

\* C20 witness: a bulk response with a price for one asset and none for the
\* other has changed the list, and the second application changed nothing.
C20_Witness ==
    /\ shown.view = "merge" /\ shown.kind = "bulk"
    /\ Len(assets) = 2
    /\ shown.data["btc"].eur = 120 /\ assets[1].priceEur = 90
    /\ shown.data["eth"].eur = 0 /\ assets[2].priceEur = 90
    /\ shown.once[1].priceEur = 120 /\ shown.once[2].priceEur = 90
    /\ shown.once # assets
    /\ shown.twice = shown.once

\* C21: when the fetches for an asset overlap, the price stored after all of
\* them have completed is the one the most recently issued fetch carried,
\* whatever the order of the responses: for an asset added in this run (its
\* holdings are still 0) that is the price of its follow-up fetch.
C21_FresherWins ==
    (Settled /\ inflight = <<>>) =>
        \A k \in 1..Len(assets) :
            assets[k].holdings = 0 =>
                /\ assets[k].priceEur = FresherAnswer.eur
                /\ assets[k].priceUsd = FresherAnswer.usd

\* totalValue is the current sum of the values, and no value or target is negative.
SoundPortfolio ==
    /\ totalValue = SumValues(assets, currency)
    /\ \A k \in 1..Len(assets) :
           getAssetValue(assets[k]) >= 0 /\ assets[k].targetPercent >= 0

NonZeroPrice(id) ==
    \E k \in 1..Len(assets) :
        assets[k].id = id /\ assets[k].priceEur # 0 /\ assets[k].priceUsd # 0

ZeroPrice(id) ==
    \A k \in 1..Len(assets) :
        assets[k].id = id => assets[k].priceEur = 0 /\ assets[k].priceUsd = 0

\* A price request that covers this id is in flight.
PricePending(id) == \E i \in 1..Len(inflight) : id \in inflight[i].ids

\* The last step was a price response that carried data for this id.
AnsweredWithData(id) ==
    /\ last.op \in {"bulkDone", "singleDone"}
    /\ id \in last.ids \ last.nodata

\* C23: after addAsset of a new coin, under fair effects and responses, the
\* asset's price fields eventually become non-zero unless the asset is removed
\* or every request for it has settled without data for it; a response with
\* data for the id makes them non-zero; and until such a response they are 0.
C23_PriceArrives ==
    /\ \A id \in Ids :
           (last.op = "addAsset" /\ id \in last.ids)
               ~> \/ NonZeroPrice(id)
                  \/ ~HasAsset(assets, id)
                  \/ (Settled /\ ~PricePending(id))
    /\ [][\A id \in Ids :
             /\ (AnsweredWithData(id)' /\ HasAsset(assets', id)) => NonZeroPrice(id)'
             /\ (~HasAsset(assets, id) /\ HasAsset(assets', id)) => ZeroPrice(id)'
             /\ (HasAsset(assets, id) /\ ZeroPrice(id) /\ ~ZeroPrice(id)') =>
                    AnsweredWithData(id)']_vars

\* C23 witness: the follow-up request of an added asset has answered with data
\* while the bulk request for it is still in flight, and its prices are set.
C23_Witness ==
    \E id \in Ids :
        /\ last.op = "singleDone"
        /\ AnsweredWithData(id)
        /\ PricePending(id)
        /\ NonZeroPrice(id)

\* The fields of an asset record.
AssetFields == DOMAIN NewAsset("btc")

\* The fields in which two asset records differ.
ChangedFields(a, b) == { f \in AssetFields : a[f] # b[f] }

C25_CategoryFrame ==
    /\ [][ \A id \in Ids, cat \in Categories :
             ( /\ last'.op = "updateAsset"
               /\ id \in last'.ids
               /\ assets' = UpdateList(assets, id, "category", cat) ) =>
                 /\ totalValue' = totalValue
                 /\ SumValues(assets', currency') = SumValues(assets, currency)
                 /\ Len(assets') = Len(assets)
                 /\ \A k \in 1..Len(assets) :
                        /\ getAssetValue(assets[k])' = getAssetValue(assets[k])
                        /\ getCurrentPercent(assets[k])' = getCurrentPercent(assets[k])
                        /\ getRebalanceAction(assets[k])' = getRebalanceAction(assets[k])
                 /\ totalPnL' = totalPnL
                 /\ pnlPercent' = pnlPercent
                 /\ totalTargetPercent' = totalTargetPercent
                 /\ calculateHealthScore' = calculateHealthScore ]_vars
    /\ [](\A k \in 1..Len(assets) : assets[k].category \in Categories)

\* C25 witness: an asset that has a value has just been marked risky.
C25_Witness ==
    /\ last.op = "updateAsset"
    /\ totalValue > 0
    /\ \E k \in 1..Len(assets) :
           /\ assets[k].id \in last.ids
           /\ assets[k].category = "risky"
           /\ getAssetValue(assets[k]) > 0

\* C26: when a search request fails, searchResults becomes the empty list and
\* isSearching becomes false, and the asset list and the query are unchanged.
C26_SearchFailure ==
    [][ last'.op = "searchFailed" =>
            /\ searchResults' = <<>>
            /\ isSearching' = FALSE
            /\ assets' = assets
            /\ searchQuery' = searchQuery ]_vars

\* C26 witness: a search has failed, after two changes of the text, with a
\* query still in the box and over a list that holds an asset.
C26_Witness ==
    /\ last.op = "searchFailed"
    /\ searchResults = <<>>
    /\ ~isSearching
    /\ Len(searchQuery) >= 2
    /\ Len(assets) > 0
    /\ typed >= 2

\* The sum over a list of the signed rebalance differences, in hundredths.
RECURSIVE SumDifferenceC(_)
SumDifferenceC(list) ==
    IF list = <<>> THEN 0 ELSE DifferenceC(Head(list)) + SumDifferenceC(Tail(list))

\* C27: whenever totalTargetPercent is exactly 100, the signed rebalance
\* differences (targetValue - value) over all assets sum to 0.
C27_DifferencesCancel ==
    totalTargetPercent = 100 => SumDifferenceC(assets) = 0

\* C28: once every search request has completed, the results on display are
\* those returned for the most recently issued query.  With no timer pending
\* and a query of two characters or more in the box, that query is the text
\* in the box (C17).
C28_NewestResultsShown ==
    ( /\ Settled
      /\ searchInflight = <<>>
      /\ timers = {}
      /\ Len(searchQuery) >= 2
      /\ last.op = "searchDone" ) =>
        searchResults = ResultsFor(searchQuery)

\* C29: in every state whose effects have run and in which the search query
\* has fewer than 2 characters, searchResults is empty.
C29_ShortQueryNoResults ==
    (Settled /\ Len(searchQuery) < 2) => searchResults = <<>>

\* The places of the bulk price requests in flight.
BulkInFlight == { i \in 1..Len(inflight) : inflight[i].kind = "bulk" }

\* C30: pricesLoading is true exactly when a bulk price fetch is in flight,
\* and at most one bulk fetch is in flight at a time.
C30_LoadingTracksBulk ==
    /\ pricesLoading <=> BulkInFlight # {}
    /\ Cardinality(BulkInFlight) <= 1

====
